---- MODULE Spec2Model ----
(***************************************************************************)
(* A model of github.com/standoffvenus/functional/v2: the iterator         *)
(* abstraction (pkg/iterator) and the combinators built on it (pkg).       *)
(*                                                                         *)
(* Iterators are records tagged with their dynamic type ("kind"); a Go nil *)
(* interface is the record NilIter.  Callbacks passed to ForEach are       *)
(* closures; they are represented by a record naming the closure and       *)
(* holding what it captured, and Invoke runs the closure's body.           *)
(***************************************************************************)
EXTENDS Integers, Sequences, FiniteSets

(* ------------------------------ bounds --------------------------------- *)

\* Longest input sequence enumerated.
MaxLen == 3

\* Largest element value; elements are 0..MaxElem.
MaxElem == 2

\* Longest sequence of the second argument of Equal.
MaxOther == 2

\* Longest list handed to the plain-sequence functions.
MaxList == 2

\* Most functions handed to Chain.
MaxChain == 3

\* Largest argument handed to a chained or composed function.
MaxArg == 5

\* Most calls of Next each goroutine makes on a shared Slice.
MaxCalls == 2

(* ------------------------- program constants --------------------------- *)

\* const defaultSize = 16 in getSizeHint.
defaultSize == 16

(* ------------------------------ values --------------------------------- *)

Elem == 0..MaxElem

SeqsUpTo(n) == UNION {[1..k -> Elem] : k \in 0..n}

\* A sequence exactly as long as the default size hint.
DefaultSized == [i \in 1..defaultSize |-> 0]

Inputs == SeqsUpTo(MaxLen) \cup {DefaultSized}

OtherInputs == SeqsUpTo(MaxOther) \cup {DefaultSized}

\* optional.Some / optional.None: a zero Option is None and holds T's zero value.
Some(t) == [some |-> TRUE, value |-> t]

None == [some |-> FALSE, value |-> 0]

(* ----------------------------- iterators ------------------------------- *)

\* The nil iterator.Iterator interface value.
NilIter == [kind |-> "nil"]

\* &iterator.Slice{Values: vs} after idx calls of Next.
SliceOf(vs, idx) == [kind |-> "Slice", Values |-> vs, index |-> idx]

\* iterator.Chan over a channel holding buf; closed tells whether close(ch) ran.
ChanOf(buf, closed) ==
  [kind |-> "Chan", buf |-> buf, closed |-> closed, isNil |-> FALSE]

\* iterator.Chan[T](nil): a nil channel never yields and cannot be closed.
NilChan == [kind |-> "Chan", buf |-> <<>>, closed |-> FALSE, isNil |-> TRUE]

\* iterator.Func(f).  f is nil, or the closure of funcIteratorOf: it receives
\* from a channel that was filled and then closed.
FuncOf(isNil, buf) ==
  [kind |-> "Func", isNil |-> isNil, buf |-> buf, blocks |-> FALSE]

\* iterator.Func(f) for an f that receives from a nil channel: f never returns.
BlockingFunc ==
  [kind |-> "Func", isNil |-> FALSE, buf |-> <<>>, blocks |-> TRUE]

\* sorted[T]{inner}: the tag Sort wraps its result in.
SortedOf(inner) == [kind |-> "sorted", Iterator |-> inner]

\* (*Slice).Count
Count(s) == Len(s.Values) - s.index

\* SliceNext with the bound test off by one: the last element is never yielded.
SliceNext_OffByOne(s) ==
  IF Len(s.Values) > s.index + 1
  THEN [iter |-> [s EXCEPT !.index = @ + 1], opt |-> Some(s.Values[s.index + 1])]
  ELSE [iter |-> s, opt |-> None]

\* SliceNext that moves the cursor on every call, exhausted or not.
SliceNext_AlwaysAdvance(s) ==
  IF Len(s.Values) > s.index
  THEN [iter |-> [s EXCEPT !.index = @ + 1], opt |-> Some(s.Values[s.index + 1])]
  ELSE [iter |-> [s EXCEPT !.index = @ + 1], opt |-> None]

\* (*Slice).Next
SliceNext(s) ==
  IF Len(s.Values) > s.index
  THEN [iter |-> [s EXCEPT !.index = @ + 1], opt |-> Some(s.Values[s.index + 1])]
  ELSE [iter |-> s, opt |-> None]

\* Chan.Next, when the receive can proceed (a value is buffered or the channel
\* is closed).
ChanNext(c) ==
  IF c.buf # <<>>
  THEN [iter |-> [c EXCEPT !.buf = Tail(@)], opt |-> Some(Head(c.buf))]
  ELSE [iter |-> c, opt |-> None]

\* Func.Next
FuncNext(f) ==
  IF ~f.isNil
  THEN IF f.buf # <<>>
       THEN [iter |-> [f EXCEPT !.buf = Tail(@)], opt |-> Some(Head(f.buf))]
       ELSE [iter |-> f, opt |-> None]
  ELSE [iter |-> f, opt |-> None]

\* sorted's Next is the embedded iterator's (always a *Slice).
SortedNext(w) ==
  LET r == SliceNext(w.Iterator)
  IN  [iter |-> [w EXCEPT !.Iterator = r.iter], opt |-> r.opt]

\* iter.Next() by dynamic dispatch.
Next(iter) ==
  CASE iter.kind = "Slice"  -> SliceNext(iter)
    [] iter.kind = "Chan"   -> ChanNext(iter)
    [] iter.kind = "Func"   -> FuncNext(iter)
    [] iter.kind = "sorted" -> SortedNext(iter)

\* A receive on an open, empty channel (or a nil one) blocks, and so does the
\* call of a function that does such a receive.
Blocks(iter) ==
  \/ iter.kind = "Chan" /\ iter.buf = <<>> /\ ~iter.closed
  \/ iter.kind = "Func" /\ iter.blocks

\* getSizeHint: only *Slice implements Enumerable.
getSizeHint(iter) ==
  IF iter.kind = "Slice"
  THEN IF Count(iter) > 0 THEN Count(iter) ELSE defaultSize
  ELSE defaultSize

\* allocate: an empty slice (its capacity, the size hint, is not observable).
allocate(iter) == <<>>

(* ------------------------ function arguments -------------------------- *)

\* Predicates handed to Filter, Any and All.
Predicates == [Elem -> BOOLEAN]

\* Functions handed to Map: the identity, a rotation, a reflection, a constant
\* and a halving (the last two are not injective).
Mappers ==
  {[x \in Elem |-> x],
   [x \in Elem |-> (x + 1) % (MaxElem + 1)],
   [x \in Elem |-> MaxElem - x],
   [x \in Elem |-> MaxElem],
   [x \in Elem |-> x \div 2]}

\* Functions handed to Reduce, by name.
Reducers == {"sum", "sumsq", "digits", "count"}

\* A nil func value handed as a predicate or a mapper, and as a reducer.
NilFn == <<>>
NilReducer == "nil"

\* fn == nil, for a predicate or mapper and for a reducer.
IsNilFn(fn) == DOMAIN fn = {}
IsNilReducer(fn) == fn = NilReducer

\* fn(accum, cur) of the reducer named fn.
Reducer(fn, accum, cur) ==
  CASE fn = "sum"    -> accum + cur
    [] fn = "sumsq"  -> accum + cur * cur
    [] fn = "digits" -> (accum * 10 + cur) % 1000000
    [] fn = "count"  -> accum + 1
    [] fn = "product" -> accum * cur

(* ------------------------------ ForEach -------------------------------- *)

\* The bodies of the closures the combinators hand to ForEach.  st is the
\* variable the closure captured; stop tells whether it called Break.
Invoke(cb, st, t) ==
  CASE cb.name = "Collect" ->
         [st |-> Append(st, t), stop |-> FALSE, panicked |-> FALSE]
    [] cb.name = "Filter"  ->
         IF IsNilFn(cb.fn)
         THEN [st |-> st, stop |-> TRUE, panicked |-> TRUE]
         ELSE [st |-> IF cb.fn[t] THEN Append(st, t) ELSE st, stop |-> FALSE,
               panicked |-> FALSE]
    [] cb.name = "Map"     ->
         IF IsNilFn(cb.fn)
         THEN [st |-> st, stop |-> TRUE, panicked |-> TRUE]
         ELSE [st |-> Append(st, cb.fn[t]), stop |-> FALSE,
               panicked |-> FALSE]
    [] cb.name = "Any"     ->
         [st |-> cb.fn[t], stop |-> cb.fn[t], panicked |-> FALSE]
    [] cb.name = "DotProduct" ->
         LET n == Next(st.b)
         IN  IF n.opt.some
             THEN [st |-> [accum |-> st.accum + (t * n.opt.value),
                           b |-> n.iter],
                   stop |-> FALSE, panicked |-> FALSE]
             ELSE [st |-> [st EXCEPT !.b = n.iter], stop |-> TRUE,
                   panicked |-> TRUE]
    [] cb.name = "Reduce"  ->
         IF IsNilReducer(cb.fn)
         THEN [st |-> st, stop |-> TRUE, panicked |-> TRUE]
         ELSE [st |-> Reducer(cb.fn, st, t), stop |-> FALSE,
               panicked |-> FALSE]

RECURSIVE ForEachLoop(_, _, _, _)
\* The loop testing its flag only after the pull: a stop costs one more Next.
ForEachLoop_PullThenTest(iter, cb, st, n) ==
  IF Blocks(iter)
  THEN [iter |-> iter, st |-> st, nexts |-> n, blocked |-> TRUE,
        panicked |-> FALSE]
  ELSE LET r == Next(iter)
       IN  IF r.opt.some
           THEN LET c == Invoke(cb, st, r.opt.value)
                IN  IF c.stop
                    THEN IF Blocks(r.iter)
                         THEN [iter |-> r.iter, st |-> c.st, nexts |-> n + 1,
                               blocked |-> TRUE, panicked |-> c.panicked]
                         ELSE [iter |-> Next(r.iter).iter, st |-> c.st,
                               nexts |-> n + 2, blocked |-> FALSE,
                               panicked |-> c.panicked]
                    ELSE ForEachLoop(r.iter, cb, c.st, n + 1)
           ELSE [iter |-> r.iter, st |-> st, nexts |-> n + 1, blocked |-> FALSE,
                 panicked |-> FALSE]

\* The for loop of ForEach; n counts the calls of Next made so far.
ForEachLoop(iter, cb, st, n) ==
  IF Blocks(iter)
  THEN [iter |-> iter, st |-> st, nexts |-> n, blocked |-> TRUE,
        panicked |-> FALSE]
  ELSE LET r == Next(iter)
       IN  IF r.opt.some
           THEN LET c == Invoke(cb, st, r.opt.value)
                IN  IF c.stop
                    THEN [iter |-> r.iter, st |-> c.st, nexts |-> n + 1,
                          blocked |-> FALSE, panicked |-> c.panicked]
                    ELSE ForEachLoop(r.iter, cb, c.st, n + 1)
           ELSE [iter |-> r.iter, st |-> st, nexts |-> n + 1, blocked |-> FALSE,
                 panicked |-> FALSE]

\* ForEach without its nil test: Next is called on the nil interface.
ForEach_NoNilCheck(iter, cb, st) ==
  IF iter = NilIter
  THEN [iter |-> iter, st |-> st, nexts |-> 0, blocked |-> FALSE,
        panicked |-> TRUE]
  ELSE ForEachLoop(iter, cb, st, 0)

\* ForEach
ForEach(iter, cb, st) ==
  IF iter = NilIter
  THEN [iter |-> iter, st |-> st, nexts |-> 0, blocked |-> FALSE,
        panicked |-> FALSE]
  ELSE ForEachLoop(iter, cb, st, 0)

(* ---------------------------- combinators ------------------------------ *)

\* Collect: st is the slice being appended to.
Collect(iter) == ForEach(iter, [name |-> "Collect"], allocate(iter))

\* Any: st is the captured variable any.
Any(iter, fn) == ForEach(iter, [name |-> "Any", fn |-> fn], FALSE)

\* All without the inner negation.
All_NotNegated(iter, fn) ==
  LET r == Any(iter, fn)
  IN  [r EXCEPT !.st = ~r.st]

\* All is the negation of Any over the negated predicate.
All(iter, fn) ==
  LET r == Any(iter, [t \in DOMAIN fn |-> ~fn[t]])
  IN  [r EXCEPT !.st = ~r.st]

\* Filter that appends whatever fn returns.
Filter_KeepAll(iter, fn) ==
  LET r == ForEach(iter, [name |-> "Filter",
                          fn |-> [x \in DOMAIN fn |-> TRUE]], allocate(iter))
  IN  [ret |-> SliceOf(r.st, 0), iter |-> r.iter, nexts |-> r.nexts,
       blocked |-> r.blocked, panicked |-> r.panicked]

\* Filter: st is filtered.Values; the result is a fresh *Slice over it.
Filter(iter, fn) ==
  LET r == ForEach(iter, [name |-> "Filter", fn |-> fn], allocate(iter))
  IN  [ret |-> SliceOf(r.st, 0), iter |-> r.iter, nexts |-> r.nexts,
       blocked |-> r.blocked, panicked |-> r.panicked]

\* Map that applies fn to the collected values but hands them back as they were
\* from the second element on.
Map_FirstOnly(iter, fn) ==
  LET r == ForEach(iter, [name |-> "Map", fn |-> fn], allocate(iter))
      c == ForEach(iter, [name |-> "Collect"], allocate(iter))
  IN  [ret |-> SliceOf([i \in 1..Len(r.st) |->
                          IF i = 1 THEN r.st[i] ELSE c.st[i]], 0),
       iter |-> r.iter, nexts |-> r.nexts, blocked |-> r.blocked,
       panicked |-> r.panicked]

\* Map that has not touched its source when it returns.
Map_SourceUntouched(iter, fn) ==
  LET r == ForEach(iter, [name |-> "Map", fn |-> fn], allocate(iter))
  IN  [ret |-> SliceOf(r.st, 0), iter |-> iter, nexts |-> 0,
       blocked |-> r.blocked, panicked |-> r.panicked]

\* Map: st is mapped.Values; the result is a fresh *Slice over it.
Map(iter, fn) ==
  LET r == ForEach(iter, [name |-> "Map", fn |-> fn], allocate(iter))
  IN  [ret |-> SliceOf(r.st, 0), iter |-> r.iter, nexts |-> r.nexts,
       blocked |-> r.blocked, panicked |-> r.panicked]

\* Reduce seeded with 1 instead of the zero value.
Reduce_SeedOne(iter, fn) == ForEach(iter, [name |-> "Reduce", fn |-> fn], 1)

\* Reduce: st is accumulator, which starts as To's zero value.
Reduce(iter, fn) == ForEach(iter, [name |-> "Reduce", fn |-> fn], 0)

\* MultiplyScalar: Reduce with accum * cur.
MultiplyScalar(iter) == Reduce(iter, "product")

\* DotProduct without the comparison of the Counts.
DotProduct_NoCountCheck(a, b) ==
  LET r == ForEach(a, [name |-> "DotProduct"], [accum |-> 0, b |-> b])
  IN  [panicked |-> r.panicked, ret |-> r.st.accum, a |-> r.iter,
       b |-> r.st.b, nexts |-> r.nexts]

\* DotProduct(a, b) for two distinct Enumerables: Reduce over a, with a
\* closure that pulls from b; st is the accumulator and b.
DotProduct(a, b) ==
  IF Count(a) # Count(b)
  THEN [panicked |-> TRUE, ret |-> 0, a |-> a, b |-> b, nexts |-> 0]
  ELSE LET r == ForEach(a, [name |-> "DotProduct"], [accum |-> 0, b |-> b])
       IN  [panicked |-> r.panicked, ret |-> r.st.accum, a |-> r.iter,
            b |-> r.st.b, nexts |-> r.nexts]

\* The comparison loop stopping one element early.
EqualFrom_StopEarly(aValues, bValues, idx) ==
  \A i \in idx..(Len(aValues) - 1) : aValues[i] = bValues[i]

RECURSIVE EqualFrom(_, _, _)
\* The comparison loop of Equal, from (1-based) position idx.
EqualFrom(aValues, bValues, idx) ==
  IF idx > Len(aValues)
  THEN TRUE
  ELSE IF aValues[idx] # bValues[idx]
       THEN FALSE
       ELSE EqualFrom(aValues, bValues, idx + 1)

\* Equal without the comparison of the size hints.
Equal_NoPreCheck(a, b) ==
  LET ra == Collect(a)
      rb == Collect(b)
  IN  IF ra.blocked
      THEN [ret |-> FALSE, a |-> ra.iter, b |-> b, nexts |-> ra.nexts,
            blocked |-> TRUE]
      ELSE [ret |-> IF Len(ra.st) # Len(rb.st)
                    THEN FALSE
                    ELSE EqualFrom(ra.st, rb.st, 1),
            a |-> ra.iter, b |-> rb.iter, nexts |-> ra.nexts + rb.nexts,
            blocked |-> rb.blocked]

\* Equal(a, b) for two distinct iterators: a is collected before b.
Equal(a, b) ==
  IF getSizeHint(a) # getSizeHint(b)
  THEN [ret |-> FALSE, a |-> a, b |-> b, nexts |-> 0, blocked |-> FALSE]
  ELSE LET ra == Collect(a)
           rb == Collect(b)
       IN  IF ra.blocked
           THEN [ret |-> FALSE, a |-> ra.iter, b |-> b, nexts |-> ra.nexts,
                 blocked |-> TRUE]
           ELSE [ret |-> IF Len(ra.st) # Len(rb.st)
                         THEN FALSE
                         ELSE EqualFrom(ra.st, rb.st, 1),
                 a |-> ra.iter, b |-> rb.iter, nexts |-> ra.nexts + rb.nexts,
                 blocked |-> rb.blocked]

(* -------------------------------- Sort --------------------------------- *)

\* The sort key of an element: elements 2k and 2k+1 compare equal.
Key(x) == x \div 2

\* A Comparable's Less: a strict ordering by key, so that distinct elements
\* can compare equal.
Less(a, b) == Key(a) < Key(b)

\* comparables.Less(i, j), 1-based.
ArrayLess(array, i, j) == Less(array[i], array[j])

\* comparables.Swap(i, j), 1-based.
Swap(array, i, j) == [array EXCEPT ![i] = array[j], ![j] = array[i]]

\* sort.IsSorted: no element is less than the one before it.
IsSorted(values) ==
  \A i \in 2..Len(values) : ~ArrayLess(values, i, i - 1)

RECURSIVE InsertionInner_NonStrict(_, _)
\* The inner loop moving an element past its equals as well.
InsertionInner_NonStrict(values, j) ==
  IF j > 1 /\ ~ArrayLess(values, j - 1, j)
  THEN InsertionInner_NonStrict(Swap(values, j, j - 1), j - 1)
  ELSE values

RECURSIVE InsertionInner(_, _)
\* for j := i; j > a && data.Less(j, j-1); j-- { data.Swap(j, j-1) }
InsertionInner(values, j) ==
  IF j > 1 /\ ArrayLess(values, j, j - 1)
  THEN InsertionInner(Swap(values, j, j - 1), j - 1)
  ELSE values

RECURSIVE InsertionOuter(_, _)
\* for i := a + 1; i < b; i++ { ... }
InsertionOuter(values, i) ==
  IF i > Len(values)
  THEN values
  ELSE InsertionOuter(InsertionInner(values, i), i + 1)

\* sort.Stable: an insertion sort for slices this short.
StableSort(values) == InsertionOuter(values, 2)

\* The rearrangements of values.
Permutations(values) ==
  LET n == Len(values)
  IN  {[i \in 1..n |-> values[p[i]]] :
         p \in {q \in [1..n -> 1..n] : \A i, j \in 1..n : q[i] = q[j] => i = j}}

\* sort.Sort: sorted by Less, with no promise about elements that compare
\* equal: every sorted rearrangement is a possible outcome.
UnstableSorts(values) == {p \in Permutations(values) : IsSorted(p)}

\* Sort without the test for an already sorted argument.
SortResults_NoShortCircuit(iter, stable) ==
  LET c == Collect(iter)
      sortedValues ==
        IF c.blocked \/ IsSorted(c.st)
        THEN {c.st}
        ELSE IF stable THEN {StableSort(c.st)} ELSE UnstableSorts(c.st)
  IN  {[ret |-> SortedOf(SliceOf(values, 0)), iter |-> c.iter,
        nexts |-> c.nexts, blocked |-> c.blocked] : values \in sortedValues}

\* Sort(iter, stable): the possible outcomes.
SortResults(iter, stable) ==
  IF iter.kind = "sorted"
  THEN {[ret |-> iter, iter |-> iter, nexts |-> 0, blocked |-> FALSE]}
  ELSE LET c == Collect(iter)
           sortedValues ==
             IF c.blocked \/ IsSorted(c.st)
             THEN {c.st}
             ELSE IF stable THEN {StableSort(c.st)} ELSE UnstableSorts(c.st)
       IN  {[ret |-> SortedOf(SliceOf(values, 0)), iter |-> c.iter,
             nexts |-> c.nexts, blocked |-> c.blocked] : values \in sortedValues}

(* ---------------------- plain-sequence functions --------------------- *)

\* A []T: nil, or a slice holding elems.
NilList == [isNil |-> TRUE, elems |-> <<>>]
ListOf(elems) == [isNil |-> FALSE, elems |-> elems]

\* The lists handed in.
Lists == {NilList} \cup {ListOf(s) : s \in SeqsUpTo(MaxList)}

\* The func(T) T values handed to Chain and Compose, by name; nil is one.
ChainFns == {"halve", "square", "addOne"}
NilChainFn == "nil"

\* fn(i) of the function named fn, T being uint8.
ApplyFn(fn, i) ==
  CASE fn = "addOne" -> (i + 1) % 256
    [] fn = "square" -> (i * i) % 256
    [] fn = "halve"  -> i \div 2

\* The arguments handed to Chain: up to MaxChain functions, nil among them.
ChainArgs ==
  UNION {[1..n -> ChainFns \cup {NilChainFn}] : n \in 0..MaxChain}

\* func(t T) T { return t }
Identity == [kind |-> "identity"]

\* A call that panicked (bork), and one that returned ret.
Panicked == [panicked |-> TRUE, ret |-> 0]
Returned(ret) == [panicked |-> FALSE, ret |-> ret]

RECURSIVE CallFunc(_, _)
\* A chained function calling its functions left to right: fnCopy(old(t)).
CallFunc_OldFirst(f, t) ==
  CASE f.kind = "identity" -> t
    [] f.kind = "chain"    -> ApplyFn(f.fnCopy, CallFunc(f.old, t))
    [] f.kind = "compose"  -> ApplyFn(f.f, ApplyFn(f.g, t))

\* f(t) for a function Chain or Compose built.
CallFunc(f, t) ==
  CASE f.kind = "identity" -> t
    [] f.kind = "chain"    -> CallFunc(f.old, ApplyFn(f.fnCopy, t))
    [] f.kind = "compose"  -> ApplyFn(f.f, ApplyFn(f.g, t))

RECURSIVE ChainLoop(_, _, _)
\* The loop of Chain over fns, at fns[i], with f built so far.
ChainLoop(fns, i, f) ==
  IF i > Len(fns)
  THEN Returned(f)
  ELSE IF fns[i] = NilChainFn
       THEN Panicked
       ELSE ChainLoop(fns, i + 1,
                      [kind |-> "chain", old |-> f, fnCopy |-> fns[i]])

\* Chain(fns...)
Chain(fns) == ChainLoop(fns, 1, Identity)

\* Compose(f, g)
Compose(f, g) ==
  IF f = NilChainFn
  THEN Panicked
  ELSE IF g = NilChainFn
       THEN Panicked
       ELSE Returned([kind |-> "compose", f |-> f, g |-> g])

\* Filter over a list without the nil test: a nil filter panics when called.
ListFilter_NoNilCheck(l, filter) ==
  IF IsNilFn(filter) /\ l.elems # <<>>
  THEN Panicked
  ELSE Returned(ListOf(SelectSeq(l.elems, LAMBDA v : filter[v])))

\* Filter(list, filter) of the plain-sequence functions.
ListFilter(l, filter) ==
  IF IsNilFn(filter)
  THEN Panicked
  ELSE Returned(ListOf(SelectSeq(l.elems, LAMBDA v : filter[v])))

\* Map(list, mapper) of the plain-sequence functions.
ListMap(l, mapper) ==
  IF IsNilFn(mapper)
  THEN Panicked
  ELSE Returned(ListOf([i \in 1..Len(l.elems) |-> mapper[l.elems[i]]]))

RECURSIVE ListReduceLoop(_, _, _, _)
\* The loop of Reduce over the list, at elems[i].
ListReduceLoop(elems, reducer, i, accum) ==
  IF i > Len(elems)
  THEN accum
  ELSE ListReduceLoop(elems, reducer, i + 1, Reducer(reducer, accum, elems[i]))

\* Reduce(list, reducer) of the plain-sequence functions.
ListReduce(l, reducer) ==
  IF IsNilReducer(reducer)
  THEN Panicked
  ELSE Returned(ListReduceLoop(l.elems, reducer, 1, 0))

(* ------------------------------- state --------------------------------- *)

\* The goroutines that call Next on one Slice.
Threads == {1, 2}

\* No plain-sequence call made.
NoListCall ==
  [op |-> "none", panicked |-> FALSE, nilfn |-> FALSE, fn |-> "none",
   arg |-> NilList, ret |-> 0]

VARIABLES
  list,      \* the slice handed to the plain-sequence functions
  lcall,     \* the last call of a plain-sequence function
  rpc,       \* concurrent Next: where each goroutine stands
  rtmp,      \* concurrent Next: the index each goroutine loaded
  rgot,      \* concurrent Next: the positions each goroutine was handed
  overlap,   \* concurrent Next: whether two calls ever ran at once
  iter,      \* the iterator the program holds
  call,      \* the last call made: its arguments, its result, its effects
  ch,        \* CollectToChan: the channel it made
  ppc,       \* CollectToChan: where its goroutine stands
  pval,      \* CollectToChan: the value its goroutine is sending
  cpc,       \* the receiver ranging over the channel
  received,  \* what the receiver has got so far
  ctxDone,   \* whether the context handed to WaitForNext is canceled
  wpc,       \* WaitForNext: where the caller stands
  wret,      \* WaitForNext: what it returned
  wch,       \* waitForNext: its one-slot channel
  gpc,       \* waitForNext: where its goroutine stands
  gval       \* waitForNext: the result of Next its goroutine holds

seqVars == <<iter, call>>

chanVars == <<ch, ppc, pval, cpc, received>>

waitVars == <<ctxDone, wpc, wret, wch, gpc, gval>>

listVars == <<list, lcall>>

raceVars == <<rpc, rtmp, rgot, overlap>>

vars == <<list, lcall, rpc, rtmp, rgot, overlap,
          iter, call, ch, ppc, pval, cpc, received,
          ctxDone, wpc, wret, wch, gpc, gval>>

\* The iterators a program starts from.  The sequence as long as the default
\* size hint is held by a slice only.
FreshIterators ==
  {SliceOf(s, 0) : s \in Inputs}
    \cup {ChanOf(s, c) : s \in SeqsUpTo(MaxLen), c \in BOOLEAN}
    \cup {FuncOf(FALSE, s) : s \in SeqsUpTo(MaxLen)}
    \cup {FuncOf(TRUE, <<>>), NilIter, NilChan, BlockingFunc}

\* The second argument of Equal: a fresh slice or a filled, closed channel.
OtherIterators ==
  {SliceOf(s, 0) : s \in OtherInputs}
    \cup {ChanOf(s, TRUE) : s \in SeqsUpTo(MaxOther)}

NoCall ==
  [op |-> "none", arg |-> NilIter, post |-> NilIter, fn |-> "none",
   ret |-> 0, nexts |-> 0, arg2 |-> NilIter, post2 |-> NilIter,
   callee |-> "none", nilfn |-> FALSE, canceled |-> FALSE]

\* make(chan T, cap)
MakeChan(cap) == [buf |-> <<>>, cap |-> cap, closed |-> FALSE]

\* No call made, no goroutine started.
Idle ==
  /\ lcall = NoListCall
  /\ rpc = [t \in Threads |-> "idle"]
  /\ rtmp = [t \in Threads |-> 0]
  /\ rgot = [t \in Threads |-> <<>>]
  /\ overlap = FALSE
  /\ call = NoCall
  /\ ch = MakeChan(0)
  /\ ppc = "none"
  /\ pval = 0
  /\ cpc = "none"
  /\ received = <<>>
  /\ ctxDone = FALSE
  /\ wpc = "idle"
  /\ wret = None
  /\ wch = MakeChan(1)
  /\ gpc = "none"
  /\ gval = None

Init ==
  /\ iter \in FreshIterators
  /\ list = NilList
  /\ Idle

\* The caller is done with the result of the last call.
Return ==
  /\ call.op # "none"
  /\ call' = NoCall
  /\ UNCHANGED <<iter, chanVars, waitVars, listVars, raceVars>>

\* iter.Next()
DoNext ==
  /\ call.op = "none"
  /\ UNCHANGED <<chanVars, waitVars, listVars, raceVars>>
  /\ iter # NilIter
  /\ ~Blocks(iter)
  /\ LET r == Next(iter)
     IN  /\ iter' = r.iter
         /\ call' = [NoCall EXCEPT !.op = "Next", !.arg = iter, !.post = r.iter,
                                   !.ret = r.opt, !.nexts = 1]

\* Collect(iter)
DoCollect ==
  /\ call.op = "none"
  /\ UNCHANGED <<chanVars, waitVars, listVars, raceVars>>
  /\ LET r == Collect(iter)
     IN  /\ ~r.blocked
         /\ iter' = r.iter
         /\ call' = [NoCall EXCEPT !.op = "Collect", !.arg = iter,
                                   !.post = r.iter, !.ret = r.st,
                                   !.nexts = r.nexts]

\* Equal(iter, b) for a fresh second iterator b.
DoEqual ==
  /\ call.op = "none"
  /\ UNCHANGED <<chanVars, waitVars, listVars, raceVars>>
  /\ \E b \in OtherIterators :
       LET r == Equal(iter, b)
       IN  /\ ~r.blocked
           /\ iter' = r.a
           /\ call' = [NoCall EXCEPT !.op = "Equal", !.arg = iter,
                                     !.post = r.a, !.arg2 = b, !.post2 = r.b,
                                     !.ret = r.ret, !.nexts = r.nexts]

\* iter = Sort(iter, stable)
DoSort ==
  /\ call.op = "none"
  /\ UNCHANGED <<chanVars, waitVars, listVars, raceVars>>
  /\ \E stable \in BOOLEAN :
       \E r \in SortResults(iter, stable) :
         /\ ~r.blocked
         /\ iter' = r.ret
         /\ call' = [NoCall EXCEPT !.op = "Sort", !.arg = iter,
                                   !.post = r.iter, !.fn = stable,
                                   !.ret = r.ret, !.nexts = r.nexts]

\* iter = Filter(iter, fn)
DoFilter ==
  /\ call.op = "none"
  /\ UNCHANGED <<chanVars, waitVars, listVars, raceVars>>
  /\ \E fn \in Predicates \cup {NilFn} :
       LET r == Filter(iter, fn)
       IN  /\ ~r.blocked
           /\ iter' = IF r.panicked THEN r.iter ELSE r.ret
           /\ call' = [NoCall EXCEPT
                         !.op = IF r.panicked THEN "panic" ELSE "Filter",
                         !.callee = "Filter", !.nilfn = IsNilFn(fn),
                         !.arg = iter, !.post = r.iter, !.fn = fn,
                         !.ret = IF r.panicked THEN 0 ELSE r.ret,
                         !.nexts = r.nexts]

\* iter = Map(iter, fn)
DoMap ==
  /\ call.op = "none"
  /\ UNCHANGED <<chanVars, waitVars, listVars, raceVars>>
  /\ \E fn \in Mappers \cup {NilFn} :
       LET r == Map(iter, fn)
       IN  /\ ~r.blocked
           /\ iter' = IF r.panicked THEN r.iter ELSE r.ret
           /\ call' = [NoCall EXCEPT
                         !.op = IF r.panicked THEN "panic" ELSE "Map",
                         !.callee = "Map", !.nilfn = IsNilFn(fn),
                         !.arg = iter, !.post = r.iter, !.fn = fn,
                         !.ret = IF r.panicked THEN 0 ELSE r.ret,
                         !.nexts = r.nexts]

\* Reduce(iter, fn)
DoReduce ==
  /\ call.op = "none"
  /\ UNCHANGED <<chanVars, waitVars, listVars, raceVars>>
  /\ \E fn \in Reducers \cup {NilReducer} :
       LET r == Reduce(iter, fn)
       IN  /\ ~r.blocked
           /\ iter' = r.iter
           /\ call' = [NoCall EXCEPT
                         !.op = IF r.panicked THEN "panic" ELSE "Reduce",
                         !.callee = "Reduce", !.nilfn = IsNilReducer(fn),
                         !.arg = iter, !.post = r.iter, !.fn = fn,
                         !.ret = IF r.panicked THEN 0 ELSE r.st,
                         !.nexts = r.nexts]

\* Any(iter, fn)
DoAny ==
  /\ call.op = "none"
  /\ UNCHANGED <<chanVars, waitVars, listVars, raceVars>>
  /\ \E fn \in Predicates :
       LET r == Any(iter, fn)
       IN  /\ ~r.blocked
           /\ iter' = r.iter
           /\ call' = [NoCall EXCEPT !.op = "Any", !.arg = iter,
                                     !.post = r.iter, !.fn = fn,
                                     !.ret = r.st, !.nexts = r.nexts]

\* All(iter, fn)
DoAll ==
  /\ call.op = "none"
  /\ UNCHANGED <<chanVars, waitVars, listVars, raceVars>>
  /\ \E fn \in Predicates :
       LET r == All(iter, fn)
       IN  /\ ~r.blocked
           /\ iter' = r.iter
           /\ call' = [NoCall EXCEPT !.op = "All", !.arg = iter,
                                     !.post = r.iter, !.fn = fn,
                                     !.ret = r.st, !.nexts = r.nexts]

NextStep ==
  \/ Return
  \/ DoNext
  \/ DoCollect
  \/ DoEqual
  \/ DoSort
  \/ DoFilter
  \/ DoMap
  \/ DoReduce
  \/ DoAny
  \/ DoAll

Spec == Init /\ [][NextStep]_vars

(* --------------------------- numeric functions ------------------------- *)

\* MultiplyScalar(iter)
DoMultiplyScalar ==
  /\ call.op = "none"
  /\ UNCHANGED <<chanVars, waitVars, listVars, raceVars>>
  /\ LET r == MultiplyScalar(iter)
     IN  /\ ~r.blocked
         /\ iter' = r.iter
         /\ call' = [NoCall EXCEPT !.op = "MultiplyScalar",
                                   !.callee = "MultiplyScalar", !.arg = iter,
                                   !.post = r.iter, !.ret = r.st,
                                   !.nexts = r.nexts]

\* DotProduct(iter, b) for a fresh Enumerable b: only a *Slice is one.
DoDotProduct ==
  /\ call.op = "none"
  /\ UNCHANGED <<chanVars, waitVars, listVars, raceVars>>
  /\ iter.kind = "Slice"
  /\ \E b \in {o \in OtherIterators : o.kind = "Slice"} :
       LET r == DotProduct(iter, b)
       IN  /\ iter' = r.a
           /\ call' = [NoCall EXCEPT
                         !.op = IF r.panicked THEN "panic" ELSE "DotProduct",
                         !.callee = "DotProduct", !.arg = iter, !.post = r.a,
                         !.arg2 = b, !.post2 = r.b, !.ret = r.ret,
                         !.nexts = r.nexts]

NumStep ==
  \/ Return
  \/ DoNext
  \/ DoMultiplyScalar
  \/ DoDotProduct

\* The numeric functions, on an iterator that may be partly consumed.
NumSpec == Init /\ [][NumStep]_vars

(* ---------------------------- CollectToChan ---------------------------- *)

\* CollectToChan making an unbuffered channel.
CollectToChan_Unbuffered ==
  /\ ppc = "none"
  /\ ch' = MakeChan(0)
  /\ ppc' = "loop"
  /\ cpc' = "range"
  /\ call' = [NoCall EXCEPT !.op = "CollectToChan", !.arg = iter]
  /\ UNCHANGED <<iter, pval, received, waitVars, listVars, raceVars>>

\* CollectToChan(iter): makes the channel, starts the goroutine and returns
\* the channel, over which the caller then ranges.
CollectToChan ==
  /\ ppc = "none"
  /\ ch' = MakeChan(getSizeHint(iter))
  /\ ppc' = "loop"
  /\ cpc' = "range"
  /\ call' = [NoCall EXCEPT !.op = "CollectToChan", !.arg = iter]
  /\ UNCHANGED <<iter, pval, received, waitVars, listVars, raceVars>>

\* The goroutine's ForEach calls iter.Next(): a value goes to the closure, None
\* (or a nil iterator) ends the loop.
ProducerNext ==
  /\ ppc = "loop"
  /\ ~Blocks(iter)
  /\ LET r == IF iter = NilIter THEN [iter |-> iter, opt |-> None] ELSE Next(iter)
     IN  /\ iter' = r.iter
         /\ pval' = r.opt.value
         /\ ppc' = IF r.opt.some THEN "send" ELSE "close"
  /\ UNCHANGED <<call, ch, cpc, received, waitVars, listVars, raceVars>>

\* c <- t, once the buffer has room.
ProducerSend ==
  /\ ppc = "send"
  /\ Len(ch.buf) < ch.cap
  /\ ch' = [ch EXCEPT !.buf = Append(@, pval)]
  /\ ppc' = "loop"
  /\ UNCHANGED <<iter, call, pval, cpc, received, waitVars, listVars, raceVars>>

\* The goroutine ending without closing the channel.
ProducerClose_Forgotten ==
  /\ ppc = "close"
  /\ ppc' = "done"
  /\ UNCHANGED <<iter, call, ch, pval, cpc, received, waitVars, listVars, raceVars>>

\* The deferred close(c).
ProducerClose ==
  /\ ppc = "close"
  /\ ch' = [ch EXCEPT !.closed = TRUE]
  /\ ppc' = "done"
  /\ UNCHANGED <<iter, call, pval, cpc, received, waitVars, listVars, raceVars>>

\* The receiver takes the next value off the channel.
Receive ==
  /\ cpc = "range"
  /\ ch.buf # <<>>
  /\ received' = Append(received, Head(ch.buf))
  /\ ch' = [ch EXCEPT !.buf = Tail(@)]
  /\ UNCHANGED <<iter, call, ppc, pval, cpc, waitVars, listVars, raceVars>>

\* The receiver finds the channel closed and drained: its range loop ends.
ReceiveClosed ==
  /\ cpc = "range"
  /\ ch.buf = <<>>
  /\ ch.closed
  /\ cpc' = "done"
  /\ UNCHANGED <<iter, call, ch, ppc, pval, received, waitVars, listVars, raceVars>>

Producer == ProducerNext \/ ProducerSend \/ ProducerClose

Receiver == Receive \/ ReceiveClosed

ChanStep ==
  \/ CollectToChan
  \/ ProducerNext
  \/ ProducerSend
  \/ ProducerClose
  \/ Receive
  \/ ReceiveClosed

ChanSpec == Init /\ [][ChanStep]_vars

\* Go runs every goroutine that can run, and the receiver keeps receiving.
FairChanSpec == ChanSpec /\ WF_vars(Producer) /\ WF_vars(Receiver)

\* Go runs the goroutine whenever it can run; the receiver may never receive.
ProducerFairChanSpec == ChanSpec /\ WF_vars(Producer)

(* ----------------------------- WaitForNext ----------------------------- *)

\* Whether iter implements BlockingIterator: *Slice and Chan do.
IsBlockingIterator(it) == it.kind \in {"Slice", "Chan"}

\* cancel(): the context's Done channel is closed.
Cancel ==
  /\ ~ctxDone
  /\ ctxDone' = TRUE
  /\ UNCHANGED <<seqVars, chanVars, wpc, wret, wch, gpc, gval, listVars, raceVars>>

\* WaitForNext(ctx, iter) on a *Slice: (*Slice).WaitForNext is Next.
WaitSlice ==
  /\ wpc = "idle"
  /\ iter.kind = "Slice"
  /\ LET r == SliceNext(iter)
     IN  /\ iter' = r.iter
         /\ wret' = r.opt
  /\ wpc' = "returned"
  /\ call' = [NoCall EXCEPT !.op = "WaitForNext", !.arg = iter,
                            !.canceled = ctxDone]
  /\ UNCHANGED <<chanVars, ctxDone, wch, gpc, gval, listVars, raceVars>>

\* WaitForNext(ctx, iter) on a Chan enters Chan.WaitForNext's select.
WaitChan ==
  /\ wpc = "idle"
  /\ iter.kind = "Chan"
  /\ wpc' = "chanSelect"
  /\ call' = [NoCall EXCEPT !.op = "WaitForNext", !.arg = iter,
                            !.canceled = ctxDone]
  /\ UNCHANGED <<iter, chanVars, ctxDone, wret, wch, gpc, gval, listVars, raceVars>>

\* case v, ok := <-c
ChanSelectReceive ==
  /\ wpc = "chanSelect"
  /\ ~Blocks(iter)
  /\ LET r == ChanNext(iter)
     IN  /\ iter' = r.iter
         /\ wret' = r.opt
  /\ wpc' = "returned"
  /\ UNCHANGED <<call, chanVars, ctxDone, wch, gpc, gval, listVars, raceVars>>

\* A select that lacks the ctx.Done() case: a plain receive.
ChanSelectDone_IgnoresContext ==
  /\ wpc = "chanSelect"
  /\ FALSE
  /\ UNCHANGED vars

\* case <-ctx.Done()
ChanSelectDone ==
  /\ wpc = "chanSelect"
  /\ ctxDone
  /\ wret' = None
  /\ wpc' = "returned"
  /\ UNCHANGED <<seqVars, chanVars, ctxDone, wch, gpc, gval, listVars, raceVars>>

\* waitForNext with a channel that has no slot: make(chan optional.Option[T]).
WaitAdapter_Unbuffered ==
  /\ wpc = "idle"
  /\ iter # NilIter
  /\ ~IsBlockingIterator(iter)
  /\ wch' = MakeChan(0)
  /\ gpc' = "next"
  /\ wpc' = "select"
  /\ call' = [NoCall EXCEPT !.op = "WaitForNext", !.arg = iter,
                            !.canceled = ctxDone]
  /\ UNCHANGED <<iter, chanVars, ctxDone, wret, gval, listVars, raceVars>>

\* WaitForNext(ctx, iter) on any other iterator: waitForNext makes its
\* channel and starts its goroutine.  (A nil iterator is not handed in.)
WaitAdapter ==
  /\ wpc = "idle"
  /\ iter # NilIter
  /\ ~IsBlockingIterator(iter)
  /\ wch' = MakeChan(1)
  /\ gpc' = "next"
  /\ wpc' = "select"
  /\ call' = [NoCall EXCEPT !.op = "WaitForNext", !.arg = iter,
                            !.canceled = ctxDone]
  /\ UNCHANGED <<iter, chanVars, ctxDone, wret, gval, listVars, raceVars>>

\* The goroutine evaluates iter.Next().
AdapterNext ==
  /\ gpc = "next"
  /\ ~Blocks(iter)
  /\ LET r == Next(iter)
     IN  /\ iter' = r.iter
         /\ gval' = r.opt
  /\ gpc' = "send"
  /\ UNCHANGED <<call, chanVars, ctxDone, wpc, wret, wch, listVars, raceVars>>

\* ch <- (the result of Next)
AdapterSend ==
  /\ gpc = "send"
  /\ Len(wch.buf) < wch.cap
  /\ wch' = [wch EXCEPT !.buf = Append(@, gval)]
  /\ gpc' = "close"
  /\ UNCHANGED <<seqVars, chanVars, ctxDone, wpc, wret, gval, listVars, raceVars>>

\* The deferred close(ch).
AdapterClose ==
  /\ gpc = "close"
  /\ wch' = [wch EXCEPT !.closed = TRUE]
  /\ gpc' = "done"
  /\ UNCHANGED <<seqVars, chanVars, ctxDone, wpc, wret, gval, listVars, raceVars>>

\* case o := <-ch
SelectReceive ==
  /\ wpc = "select"
  /\ wch.buf # <<>>
  /\ wret' = Head(wch.buf)
  /\ wch' = [wch EXCEPT !.buf = Tail(@)]
  /\ wpc' = "returned"
  /\ UNCHANGED <<seqVars, chanVars, ctxDone, gpc, gval, listVars, raceVars>>

\* case <-ctx.Done()
SelectDone ==
  /\ wpc = "select"
  /\ ctxDone
  /\ wret' = None
  /\ wpc' = "returned"
  /\ UNCHANGED <<seqVars, chanVars, ctxDone, wch, gpc, gval, listVars, raceVars>>

\* close(ch) by the owner of the channel a Chan iterates.
SourceClose ==
  /\ wpc # "idle"
  /\ iter.kind = "Chan"
  /\ ~iter.isNil
  /\ ~iter.closed
  /\ iter' = [iter EXCEPT !.closed = TRUE]
  /\ UNCHANGED <<call, chanVars, waitVars, listVars, raceVars>>

\* The select of the caller, in Chan.WaitForNext or in waitForNext.
CallerSelect ==
  ChanSelectReceive \/ ChanSelectDone \/ SelectReceive \/ SelectDone

\* The goroutine waitForNext started.
AdapterGoroutine == AdapterNext \/ AdapterSend \/ AdapterClose

WaitStep ==
  \/ Cancel
  \/ SourceClose
  \/ WaitSlice
  \/ WaitChan
  \/ ChanSelectReceive
  \/ ChanSelectDone
  \/ WaitAdapter
  \/ AdapterNext
  \/ AdapterSend
  \/ AdapterClose
  \/ SelectReceive
  \/ SelectDone

WaitSpec == Init /\ [][WaitStep]_vars

\* Go runs every goroutine that can run: a select with a ready case proceeds.
FairWaitSpec ==
  WaitSpec /\ WF_vars(CallerSelect) /\ WF_vars(AdapterGoroutine)

(* ---------------------- plain-sequence calls -------------------------- *)

\* The caller is done with the result of the last plain-sequence call.
ListReturn ==
  /\ lcall.op # "none"
  /\ lcall' = NoListCall
  /\ UNCHANGED <<list, seqVars, chanVars, waitVars, raceVars>>

\* Filter(list, filter)
DoListFilter ==
  /\ lcall.op = "none"
  /\ \E filter \in Predicates \cup {NilFn} :
       LET r == ListFilter(list, filter)
       IN  lcall' = [NoListCall EXCEPT !.op = "Filter", !.arg = list,
                                       !.fn = filter, !.nilfn = IsNilFn(filter),
                                       !.panicked = r.panicked, !.ret = r.ret]
  /\ UNCHANGED <<list, seqVars, chanVars, waitVars, raceVars>>

\* Map(list, mapper)
DoListMap ==
  /\ lcall.op = "none"
  /\ \E mapper \in Mappers \cup {NilFn} :
       LET r == ListMap(list, mapper)
       IN  lcall' = [NoListCall EXCEPT !.op = "Map", !.arg = list,
                                       !.fn = mapper, !.nilfn = IsNilFn(mapper),
                                       !.panicked = r.panicked, !.ret = r.ret]
  /\ UNCHANGED <<list, seqVars, chanVars, waitVars, raceVars>>

\* Reduce(list, reducer)
DoListReduce ==
  /\ lcall.op = "none"
  /\ \E reducer \in Reducers \cup {NilReducer} :
       LET r == ListReduce(list, reducer)
       IN  lcall' = [NoListCall EXCEPT !.op = "Reduce", !.arg = list,
                                       !.fn = reducer,
                                       !.nilfn = IsNilReducer(reducer),
                                       !.panicked = r.panicked, !.ret = r.ret]
  /\ UNCHANGED <<list, seqVars, chanVars, waitVars, raceVars>>

\* Chain(fns...)(x): the function is built, then called if Chain returned.
DoChain ==
  /\ lcall.op = "none"
  /\ \E fns \in ChainArgs, x \in 0..MaxArg :
       LET r == Chain(fns)
       IN  lcall' = [NoListCall EXCEPT
                      !.op = "Chain", !.fn = fns,
                      !.nilfn = \E i \in DOMAIN fns : fns[i] = NilChainFn,
                      !.panicked = r.panicked,
                      !.arg = IF r.panicked THEN 0 ELSE x,
                      !.ret = IF r.panicked THEN 0 ELSE CallFunc(r.ret, x)]
  /\ UNCHANGED <<list, seqVars, chanVars, waitVars, raceVars>>

\* Compose(f, g)(x): the function is built, then called if Compose returned.
DoCompose ==
  /\ lcall.op = "none"
  /\ \E f \in ChainFns \cup {NilChainFn}, g \in ChainFns \cup {NilChainFn},
        x \in 0..MaxArg :
       LET r == Compose(f, g)
       IN  lcall' = [NoListCall EXCEPT
                      !.op = "Compose", !.fn = <<f, g>>,
                      !.nilfn = (f = NilChainFn \/ g = NilChainFn),
                      !.panicked = r.panicked,
                      !.arg = IF r.panicked THEN 0 ELSE x,
                      !.ret = IF r.panicked THEN 0 ELSE CallFunc(r.ret, x)]
  /\ UNCHANGED <<list, seqVars, chanVars, waitVars, raceVars>>

ListStep ==
  \/ ListReturn
  \/ DoListFilter
  \/ DoListMap
  \/ DoListReduce
  \/ DoChain
  \/ DoCompose

\* The plain-sequence functions are handed any list.
ListInit ==
  /\ iter = NilIter
  /\ list \in Lists
  /\ Idle

ListSpec == ListInit /\ [][ListStep]_vars

(* ------------------- Next called from two goroutines ------------------- *)

\* len(s.Values) > index with bounds included: the test off by one.
InRange_Inclusive(s, index) == Len(s.Values) >= index

\* len(s.Values) > s.index, for the index the goroutine read.
InRange(s, index) == Len(s.Values) > index

\* An index-out-of-range panic in one goroutine ends the program.
Crashed == \E t \in Threads : rpc[t] = "panic"

\* A goroutine calls s.Next(); the call overlaps another if one is under way.
RaceCall ==
  \E t \in Threads :
    /\ ~Crashed
    /\ rpc[t] = "idle"
    /\ Len(rgot[t]) < MaxCalls
    /\ rpc' = [rpc EXCEPT ![t] = "check"]
    /\ overlap' = (overlap \/ \E u \in Threads \ {t} : rpc[u] # "idle")
    /\ UNCHANGED <<rtmp, rgot, seqVars, chanVars, waitVars, listVars>>

\* if len(s.Values) > s.index { ... } return None
RaceCheck ==
  \E t \in Threads :
    /\ ~Crashed
    /\ rpc[t] = "check"
    /\ IF InRange(iter, iter.index)
       THEN /\ rpc' = [rpc EXCEPT ![t] = "load"]
            /\ UNCHANGED rgot
       ELSE /\ rpc' = [rpc EXCEPT ![t] = "idle"]
            /\ rgot' = [rgot EXCEPT ![t] = Append(@, 0)]
    /\ UNCHANGED <<rtmp, overlap, seqVars, chanVars, waitVars, listVars>>

\* s.index++, first half: the index is loaded.
RaceLoad ==
  \E t \in Threads :
    /\ ~Crashed
    /\ rpc[t] = "load"
    /\ rtmp' = [rtmp EXCEPT ![t] = iter.index]
    /\ rpc' = [rpc EXCEPT ![t] = "store"]
    /\ UNCHANGED <<rgot, overlap, seqVars, chanVars, waitVars, listVars>>

\* s.index++, second half: the index loaded, plus one, is stored.
RaceStore ==
  \E t \in Threads :
    /\ ~Crashed
    /\ rpc[t] = "store"
    /\ iter' = [iter EXCEPT !.index = rtmp[t] + 1]
    /\ rpc' = [rpc EXCEPT ![t] = "read"]
    /\ UNCHANGED <<rtmp, rgot, overlap, call, chanVars, waitVars, listVars>>

\* return Some(s.Values[index-1]) for the index at hand: position index of
\* Values is handed out, or the read is out of range and panics.
RaceReturn(t, index) ==
  /\ IF index <= Len(iter.Values)
     THEN /\ rpc' = [rpc EXCEPT ![t] = "idle"]
          /\ rgot' = [rgot EXCEPT ![t] = Append(@, index)]
     ELSE /\ rpc' = [rpc EXCEPT ![t] = "panic"]
          /\ UNCHANGED rgot
  /\ UNCHANGED <<rtmp, overlap, seqVars, chanVars, waitVars, listVars>>

\* s.Values[s.index-1] with s.index loaded anew.
RaceReadIndex ==
  \E t \in Threads :
    /\ ~Crashed
    /\ rpc[t] = "read"
    /\ RaceReturn(t, iter.index)

\* s.Values[s.index-1] with the index the goroutine stored kept in a register.
RaceReadCached ==
  \E t \in Threads :
    /\ ~Crashed
    /\ rpc[t] = "read"
    /\ RaceReturn(t, rtmp[t] + 1)

RaceStep ==
  \/ RaceCall
  \/ RaceCheck
  \/ RaceLoad
  \/ RaceStore
  \/ RaceReadIndex
  \/ RaceReadCached

\* The goroutines share one fresh Slice; its length is what matters.
RaceInit ==
  /\ iter \in {SliceOf([i \in 1..n |-> i % (MaxElem + 1)], 0) : n \in 0..MaxLen}
  /\ list = NilList
  /\ Idle

RaceSpec == RaceInit /\ [][RaceStep]_vars

(* ------------------------- what the claims use ------------------------- *)

\* Some position of the Slice was handed to both goroutines.
HandedTwice ==
  \E i \in DOMAIN rgot[1], j \in DOMAIN rgot[2] :
    rgot[1][i] # 0 /\ rgot[1][i] = rgot[2][j]

\* Some position was handed twice to one goroutine.
HandedAgain ==
  \E t \in Threads : \E i \in DOMAIN rgot[t], j \in DOMAIN rgot[t] :
    i # j /\ rgot[t][i] # 0 /\ rgot[t][i] = rgot[t][j]

\* The cursor is past the length: Count is negative.
PastEnd == iter.index > Len(iter.Values)

\* The elements an iterator has yet to yield, in order.
Remaining(it) ==
  CASE it.kind = "Slice"  -> SubSeq(it.Values, it.index + 1, Len(it.Values))
    [] it.kind = "Chan"   -> it.buf
    [] it.kind = "Func"   -> IF it.isNil THEN <<>> ELSE it.buf
    [] it.kind = "sorted" ->
         SubSeq(it.Iterator.Values, it.Iterator.index + 1,
                Len(it.Iterator.Values))
    [] it.kind = "nil"    -> <<>>

\* How often e occurs in s.
Occurrences(s, e) == Cardinality({i \in 1..Len(s) : s[i] = e})

\* s and t hold the same elements, each as often.
SameElements(s, t) ==
  /\ Len(s) = Len(t)
  /\ \A i \in 1..Len(s) : Occurrences(s, s[i]) = Occurrences(t, s[i])

\* The elements of s with sort key k, in order.
WithKey(s, k) == SelectSeq(s, LAMBDA x : Key(x) = k)

\* s is an initial part of t.
IsPrefix(s, t) == Len(s) <= Len(t) /\ s = SubSeq(t, 1, Len(s))

\* Next on the iterator comes to return None: it is not an open channel, nor
\* a function that blocks.
Exhaustible(it) ==
  /\ ~(it.kind = "Chan" /\ ~it.closed)
  /\ ~(it.kind = "Func" /\ it.blocks)

RECURSIVE FoldLeft(_, _, _)
\* fn(...fn(fn(zero, s[1]), s[2])..., s[n]), unfolded from the last element.
FoldLeft(fn, zero, s) ==
  IF s = <<>>
  THEN zero
  ELSE Reducer(fn, FoldLeft(fn, zero, SubSeq(s, 1, Len(s) - 1)), s[Len(s)])

\* The first position of s whose element gives fn the value want; 0 if none.
FirstAt(s, fn, want) ==
  IF \E i \in 1..Len(s) : fn[s[i]] = want
  THEN CHOOSE i \in 1..Len(s) :
         /\ fn[s[i]] = want
         /\ \A j \in 1..(i - 1) : fn[s[j]] # want
  ELSE 0

RECURSIVE Product(_)
\* x1 * ... * xn, and 1 for no element.
Product(s) == IF s = <<>> THEN 1 ELSE Head(s) * Product(Tail(s))

RECURSIVE Dot(_, _)
\* The sum of s[i] * t[i] over the positions both have.
Dot(s, t) ==
  IF s = <<>> \/ t = <<>>
  THEN 0
  ELSE Head(s) * Head(t) + Dot(Tail(s), Tail(t))

RECURSIVE RightToLeft(_, _)
\* f1(f2(...fn(x)...)) for fns = <<f1, ..., fn>>.
RightToLeft(fns, x) ==
  IF fns = <<>>
  THEN x
  ELSE ApplyFn(Head(fns), RightToLeft(Tail(fns), x))

(* ------------------------------- claims -------------------------------- *)

\* C1: Collect on a bounded-sequence iterator returns the elements after the
\* cursor, in order; on a fresh iterator over S that is exactly S.
C1_CollectRoundTrip ==
  (call.op = "Collect" /\ call.arg.kind = "Slice") =>
    /\ call.ret = SubSeq(call.arg.Values, call.arg.index + 1,
                         Len(call.arg.Values))
    /\ call.arg.index = 0 => call.ret = call.arg.Values

C1_Witness ==
  /\ call.op = "Collect"
  /\ call.arg.kind = "Slice"
  /\ call.arg.index = 0
  /\ call.ret = <<2, 0, 1>>

\* C2: WaitForNext called with an already canceled context on a non-empty
\* source returns None and consumes no element: the source still holds all
\* it held, whatever the kind of iterator.
C2_CanceledWaitConsumesNothing ==
  (/\ call.op = "WaitForNext"
   /\ call.canceled
   /\ Remaining(call.arg) # <<>>
   /\ wpc = "returned") =>
    /\ wret = None
    /\ Remaining(iter) = Remaining(call.arg)

\* C3: CollectToChan delivers on its channel the elements the iterator
\* yields, each once and in order, and closes it only after the last one; a
\* receiver that keeps receiving comes to see the channel closed.
C3_CollectToChanDelivers ==
  /\ [](call.op = "CollectToChan" =>
          /\ IsPrefix(received, Remaining(call.arg))
          /\ ch.closed => received \o ch.buf = Remaining(call.arg)
          /\ cpc = "done" => received = Remaining(call.arg))
  /\ (call.op = "CollectToChan" /\ Exhaustible(call.arg)) ~> (cpc = "done")

C3_Witness ==
  /\ call.op = "CollectToChan"
  /\ call.arg = SliceOf(<<0, 1, 2>>, 0)
  /\ cpc = "done"
  /\ received = <<0, 1, 2>>

\* C4: Equal on fresh bounded-sequence iterators over S1 and S2 is true
\* exactly when S1 and S2 have the same length and the same element at every
\* index; it gives the same answer with its arguments exchanged.
C4_EqualIffSameSequence ==
  (/\ call.op = "Equal"
   /\ call.arg.kind = "Slice" /\ call.arg.index = 0
   /\ call.arg2.kind = "Slice") =>
    /\ call.ret <=> (/\ Len(call.arg.Values) = Len(call.arg2.Values)
                     /\ \A i \in 1..Len(call.arg.Values) :
                          call.arg.Values[i] = call.arg2.Values[i])
    /\ Equal(call.arg2, call.arg).ret = call.ret

C4_Witness ==
  /\ call.op = "Equal"
  /\ call.arg = SliceOf(<<1, 2>>, 0)
  /\ call.arg2 = SliceOf(<<2, 1>>, 0)
  /\ call.ret = FALSE

\* C5: Sort of a value Sort returned gives back that same iterator, unchanged,
\* and calls Next on it not once, whatever the stable flag.
C5_SortShortCircuit ==
  (call.op = "Sort" /\ call.arg.kind = "sorted") =>
    /\ call.ret = call.arg
    /\ call.post = call.arg
    /\ call.nexts = 0

C5_Witness ==
  /\ call.op = "Sort"
  /\ call.arg.kind = "sorted"
  /\ Len(Remaining(call.arg)) >= 2

\* C6: Sort of an iterator that is no Sort result returns the remaining
\* elements rearranged so that no element is less than the one before it;
\* with stable set, elements that compare equal keep their order; an input
\* already in order comes back as it was.
C6_SortSorts ==
  (call.op = "Sort" /\ call.arg.kind # "sorted") =>
    LET in  == Remaining(call.arg)
        out == call.ret.Iterator.Values
    IN  /\ call.ret.kind = "sorted"
        /\ call.ret.Iterator.kind = "Slice"
        /\ call.ret.Iterator.index = 0
        /\ SameElements(in, out)
        /\ \A i \in 1..(Len(out) - 1) : ~Less(out[i + 1], out[i])
        /\ call.fn => \A x \in Elem : WithKey(out, Key(x)) = WithKey(in, Key(x))
        /\ (\A i, j \in 1..Len(in) : i < j => ~Less(in[j], in[i])) => out = in

C6_Witness ==
  /\ call.op = "Sort"
  /\ call.fn = TRUE
  /\ call.arg = SliceOf(<<2, 1, 0>>, 0)
  /\ call.ret = SortedOf(SliceOf(<<1, 0, 2>>, 0))

\* C7: Filter returns an iterator that yields exactly the source's elements
\* that satisfy the predicate, each as often as it occurs and in the
\* original order, and then absent.
C7_FilterKeepsSatisfying ==
  call.op = "Filter" =>
    LET c == Collect(call.ret)
    IN  /\ c.st = SelectSeq(Remaining(call.arg), LAMBDA x : call.fn[x])
        /\ Next(c.iter).opt = None

C7_Witness ==
  /\ call.op = "Filter"
  /\ call.arg = SliceOf(<<1, 0, 1>>, 0)
  /\ call.ret.Values = <<1, 1>>

\* C8: Map returns an iterator that yields fn of each source element, in
\* source order and as many as the source had, and then absent.
C8_MapPreservesOrder ==
  call.op = "Map" =>
    LET c  == Collect(call.ret)
        in == Remaining(call.arg)
    IN  /\ Len(c.st) = Len(in)
        /\ \A i \in 1..Len(in) : c.st[i] = call.fn[in[i]]
        /\ Next(c.iter).opt = None

C8_Witness ==
  /\ call.op = "Map"
  /\ call.arg = SliceOf(<<0, 2, 1>>, 0)
  /\ call.ret.Values = <<1, 0, 2>>

\* C9: Reduce is the left fold of fn over the elements, in iteration order,
\* seeded with the zero value: fn is applied once per element, and not at
\* all over an empty iterator, where the zero value is returned.
C9_ReduceIsLeftFold ==
  /\ call.op = "Reduce" =>
       /\ call.ret = FoldLeft(call.fn, 0, Remaining(call.arg))
       /\ call.fn = "count" => call.ret = Len(Remaining(call.arg))
       /\ Remaining(call.arg) = <<>> => call.ret = 0
  /\ Reduce(SliceOf(<<0, 1, 2, 3, 4, 5>>, 0), "sum").st = 15

C9_Witness ==
  /\ call.op = "Reduce"
  /\ call.fn = "digits"
  /\ call.arg = SliceOf(<<1, 2, 0>>, 0)
  /\ call.ret = 120

\* C10: Any is true exactly when some yielded element satisfies the
\* predicate, All exactly when none fails it; over an empty iterator Any is
\* false and All is true.
C10_AnyAll ==
  LET in == Remaining(call.arg)
  IN  /\ call.op = "Any" =>
           /\ call.ret <=> \E i \in 1..Len(in) : call.fn[in[i]]
           /\ in = <<>> => call.ret = FALSE
      /\ call.op = "All" =>
           /\ call.ret <=> \A i \in 1..Len(in) : call.fn[in[i]]
           /\ call.ret <=> ~Any(call.arg, [x \in Elem |-> ~call.fn[x]]).st
           /\ in = <<>> => call.ret = TRUE

C10_Witness ==
  /\ call.op = "All"
  /\ call.arg = SliceOf(<<1, 1, 0>>, 0)
  /\ call.fn[1] /\ ~call.fn[0]
  /\ call.ret = FALSE

\* C11: once the context is canceled, a WaitForNext that was called comes to
\* return, whatever the source: a nil channel, an open channel that stays
\* empty, or (through waitForNext) an iterator whose Next never returns; and
\* on a source that could not yield when called, what it returns is None.
C11_CanceledWaitReturns ==
  /\ [](wpc = "returned" /\ Blocks(call.arg) => wret = None)
  /\ (call.op = "WaitForNext" /\ ctxDone) ~> (wpc = "returned")

C11_Witness ==
  /\ call.op = "WaitForNext"
  /\ call.arg = NilChan
  /\ ctxDone
  /\ wpc = "returned"
  /\ wret = None

\* C12: a Slice is one-shot.  Its cursor stays within 0..len(Values) and its
\* Count is never negative; a Next with the cursor at i-1 < n yields the i-th
\* element and moves the cursor by one, a Next on an exhausted Slice yields
\* None and leaves the cursor where it was; and after k calls of Next (one
\* call, or the k calls a combinator makes) Count is max(Count before - k, 0).
C12_SliceOneShot ==
  /\ iter.kind = "Slice" =>
       /\ 0 <= iter.index
       /\ iter.index <= Len(iter.Values)
       /\ Count(iter) >= 0
  /\ (call.op = "Next" /\ call.arg.kind = "Slice") =>
       LET s == call.arg
           n == Len(s.Values)
           i == s.index + 1
       IN  /\ i <= n => /\ call.ret = Some(s.Values[i])
                        /\ call.post = [s EXCEPT !.index = i]
           /\ i > n => /\ call.ret = None
                       /\ call.post = s
  /\ (/\ call.op \in {"Next", "Collect", "Filter", "Map", "Reduce", "Any", "All"}
      /\ call.arg.kind = "Slice") =>
       LET left == Count(call.arg) - call.nexts
       IN  /\ call.post.kind = "Slice"
           /\ call.post.Values = call.arg.Values
           /\ Count(call.post) = IF left > 0 THEN left ELSE 0

C12_Witness ==
  /\ call.op = "Next"
  /\ call.arg = SliceOf(<<0, 1>>, 2)
  /\ call.ret = None
  /\ iter = call.arg
  /\ Count(iter) = 0

\* C13: on a nil iterator the combinators do not panic and do what they do on
\* an empty one: no Next is called and the callback is not invoked (not even
\* a nil one), Collect returns an empty slice, Any false, All true, Reduce
\* the zero value, and Filter and Map an iterator that is exhausted.
C13_NilIteratorAsEmpty ==
  (call.op # "none" /\ call.arg = NilIter) =>
    LET empty == SliceOf(<<>>, 0)
    IN  /\ call.op # "panic"
        /\ call.op # "Equal" => call.nexts = 0
        /\ call.post = NilIter
        /\ call.op = "Collect" =>
             /\ call.ret = <<>>
             /\ call.ret = Collect(empty).st
        /\ call.op = "Any" =>
             /\ call.ret = FALSE
             /\ call.ret = Any(empty, call.fn).st
        /\ call.op = "All" =>
             /\ call.ret = TRUE
             /\ call.ret = All(empty, call.fn).st
        /\ call.op = "Reduce" =>
             /\ call.ret = 0
             /\ call.ret = Reduce(empty, call.fn).st
        /\ call.op = "Filter" =>
             /\ Next(call.ret).opt = None
             /\ call.ret = Filter(empty, call.fn).ret
        /\ call.op = "Map" =>
             /\ Next(call.ret).opt = None
             /\ call.ret = Map(empty, call.fn).ret

C13_Witness ==
  /\ call.op = "Map"
  /\ call.arg = NilIter
  /\ call.fn \in Mappers
  /\ iter = SliceOf(<<>>, 0)

\* C14: Filter, Map and Reduce handed a nil function panic, and at once (no
\* element is pulled first), whatever the iterator: also an empty or a nil
\* one, on which the function would never be called.
C14_NilFunctionPanics ==
  (call.callee \in {"Filter", "Map", "Reduce"} /\ call.nilfn) =>
    /\ call.op = "panic"
    /\ call.nexts = 0

\* C15: the plain-sequence Filter, Map and Reduce panic when their callback
\* is nil, whatever the list (nil and empty included); Compose panics when
\* either argument is nil and Chain when any of its functions is, both when
\* building the function; with callbacks that are not nil none of them
\* panics, and Filter and Map return a slice that is not nil.
C15_NilCallbackPanics ==
  lcall.op # "none" =>
    /\ lcall.panicked <=> lcall.nilfn
    /\ (lcall.op \in {"Filter", "Map"} /\ ~lcall.nilfn) =>
         /\ ~lcall.ret.isNil
         /\ Len(lcall.ret.elems) <= Len(lcall.arg.elems)

C15_Witness ==
  /\ lcall.op = "Filter"
  /\ lcall.arg = NilList
  /\ lcall.nilfn
  /\ lcall.panicked

\* C16: Chain composes right to left: Chain(f1, ..., fn)(x) is
\* f1(f2(...fn(x)...)), the function declared last running first; Chain()
\* is the identity, Chain(f)(x) is f(x), and Chain(halve, square, addOne)(5)
\* is 18.
C16_ChainRightToLeft ==
  (lcall.op = "Chain" /\ ~lcall.panicked) =>
    LET fns == lcall.fn
        x == lcall.arg
    IN  /\ lcall.ret = RightToLeft(fns, x)
        /\ fns = <<>> => lcall.ret = x
        /\ Len(fns) = 1 => lcall.ret = ApplyFn(fns[1], x)
        /\ (fns = <<"halve", "square", "addOne">> /\ x = 5) => lcall.ret = 18

C16_Witness ==
  /\ lcall.op = "Chain"
  /\ lcall.fn = <<"halve", "square", "addOne">>
  /\ lcall.arg = 5
  /\ lcall.ret = 18

\* C17: DotProduct of two distinct Enumerables panics when their Counts
\* differ, before any element is pulled from either; when they are equal it
\* returns the sum of the products of the elements pairwise and leaves both
\* exhausted.  DotProduct([6, -2, -1], [2, 10, 2]) is -10.
C17_DotProduct ==
  /\ call.callee = "DotProduct" =>
       /\ Count(call.arg) # Count(call.arg2) =>
            /\ call.op = "panic"
            /\ call.nexts = 0
            /\ call.post = call.arg
            /\ call.post2 = call.arg2
       /\ Count(call.arg) = Count(call.arg2) =>
            /\ call.op = "DotProduct"
            /\ call.ret = Dot(Remaining(call.arg), Remaining(call.arg2))
            /\ Count(call.post) = 0
            /\ Count(call.post2) = 0
  /\ LET r == DotProduct(SliceOf(<<6, -2, -1>>, 0), SliceOf(<<2, 10, 2>>, 0))
     IN  ~r.panicked /\ r.ret = -10

C17_Witness ==
  /\ call.op = "DotProduct"
  /\ call.arg = SliceOf(<<1, 2>>, 0)
  /\ call.arg2 = SliceOf(<<2, 1>>, 0)
  /\ call.ret = 4
  /\ Count(iter) = 0

\* C18: MultiplyScalar returns the product of the elements: for x1, ..., xn
\* with n >= 1 the result is x1 * ... * xn.
C18_MultiplyScalarIsProduct ==
  (call.op = "MultiplyScalar" /\ Remaining(call.arg) # <<>>) =>
    call.ret = Product(Remaining(call.arg))

\* C19: for an iterator with no size hint (a Func) the channel CollectToChan
\* makes is unbuffered, so that the goroutine has at any moment pulled at
\* most one element more than the receiver has received.
C19_NoHintUnbuffered ==
  (call.op = "CollectToChan" /\ call.arg.kind = "Func") =>
    LET pulled == Len(Remaining(call.arg)) - Len(Remaining(iter))
    IN  /\ ch.cap = 0
        /\ pulled <= Len(received) + 1

\* C20: a Slice is not safe for concurrent Next.  With two goroutines
\* calling Next an interleaving is reachable in which the same element is
\* handed to both, and one in which the cursor ends past the length (Count
\* negative, or an out-of-range read); these never happen unless two calls
\* have overlapped, and the cursor overshoots by at most one.
C20_SliceRace ==
  /\ (HandedTwice \/ HandedAgain \/ PastEnd \/ Crashed) => overlap
  /\ PastEnd <=> Count(iter) < 0
  /\ iter.index <= Len(iter.Values) + 1

C20_Witness ==
  /\ HandedTwice
  /\ PastEnd
  /\ Count(iter) < 0
  /\ overlap

\* C21: the goroutine waitForNext starts ends if and only if the Next it
\* wraps returns.  Its one send on the one-slot channel can always proceed,
\* also after the caller has returned on cancellation and nobody will
\* receive, so once Next has returned the goroutine comes to its end; when
\* Next never returns the goroutine stays in it for ever, while the caller,
\* once the context is canceled, returns None.
C21_AdapterGoroutine ==
  /\ [](gpc = "send" => Len(wch.buf) < wch.cap)
  /\ [](gpc = "next" /\ Blocks(iter) => [](gpc = "next"))
  /\ [](gpc \in {"send", "close", "done"} => ~Blocks(call.arg))
  /\ (gpc = "next" /\ ~Blocks(iter)) ~> (gpc = "done")
  /\ (gpc = "next" /\ Blocks(iter) /\ ctxDone)
       ~> (wpc = "returned" /\ wret = None /\ gpc = "next")

C21_Witness ==
  /\ call.op = "WaitForNext"
  /\ call.arg = BlockingFunc
  /\ ctxDone
  /\ wpc = "returned"
  /\ wret = None
  /\ gpc = "next"

\* C22: ForEach tests its flag before each pull, so after the callback has
\* called stop no Next is called: the elements after the current one stay in
\* the iterator.  Any pulls exactly the elements up to and including the
\* first that satisfies the predicate, All those up to and including the
\* first that fails it (one callback per element pulled, none for a later
\* element); with no such element the iterator is drained.
C22_StopBeforePull ==
  (call.op \in {"Any", "All"} /\ call.arg # NilIter) =>
    LET in == Remaining(call.arg)
        k == FirstAt(in, call.fn, call.op = "Any")
    IN  /\ k > 0 =>
             /\ call.nexts = k
             /\ Remaining(call.post) = SubSeq(in, k + 1, Len(in))
             /\ call.ret = (call.op = "Any")
        /\ k = 0 =>
             /\ call.nexts = Len(in) + 1
             /\ Remaining(call.post) = <<>>
             /\ call.ret = (call.op = "All")

C22_Witness ==
  /\ call.op = "Any"
  /\ call.arg = SliceOf(<<0, 1, 2>>, 0)
  /\ ~call.fn[0] /\ call.fn[1] /\ ~call.fn[2]
  /\ call.ret = TRUE
  /\ call.nexts = 2
  /\ iter = SliceOf(<<0, 1, 2>>, 2)

\* C23: the comparison of size hints in Equal can answer wrongly.  When the
\* hints of the two iterators differ Equal returns false with no element
\* pulled from either, whatever they would yield; so for an iterator that is
\* not Enumerable (hint 16) and a Slice of another length yielding the same
\* elements it returns false.  When the hints agree the answer is right.
C23_EqualPreCheck ==
  call.op = "Equal" =>
    /\ getSizeHint(call.arg) # getSizeHint(call.arg2) =>
         /\ call.ret = FALSE
         /\ call.nexts = 0
         /\ call.post = call.arg
         /\ call.post2 = call.arg2
    /\ getSizeHint(call.arg) = getSizeHint(call.arg2) =>
         (call.ret <=> Remaining(call.arg) = Remaining(call.arg2))

C23_Witness ==
  /\ call.op = "Equal"
  /\ call.arg = ChanOf(<<0, 1>>, TRUE)
  /\ call.arg2 = SliceOf(<<0, 1>>, 0)
  /\ Remaining(call.arg) = Remaining(call.arg2)
  /\ call.ret = FALSE
  /\ call.nexts = 0
  /\ iter = call.arg

\* C24: Map and Filter are eager.  When the call returns the source is
\* drained (nothing remains, its Next returns None, Count is 0 for a Slice)
\* and the function has been called once for each element the source
\* yielded; what is returned is a fresh Slice that already holds every
\* result, so that pulling from it is a Next on that Slice alone.
C24_MapFilterEager ==
  (call.op \in {"Filter", "Map"} /\ call.arg # NilIter) =>
    LET in == Remaining(call.arg)
        out == Collect(call.ret)
    IN  /\ Remaining(call.post) = <<>>
        /\ ~Blocks(call.post)
        /\ Next(call.post).opt = None
        /\ Next(call.post).iter = call.post
        /\ call.post.kind = "Slice" => Count(call.post) = 0
        /\ call.nexts = Len(in) + 1
        /\ call.ret.kind = "Slice"
        /\ call.ret.index = 0
        /\ call.op = "Map" =>
             call.ret.Values = [i \in 1..Len(in) |-> call.fn[in[i]]]
        /\ call.op = "Filter" =>
             call.ret.Values = SelectSeq(in, LAMBDA x : call.fn[x])
        /\ out.st = call.ret.Values
        /\ out.nexts = Len(call.ret.Values) + 1

C24_Witness ==
  /\ call.op = "Map"
  /\ call.arg = ChanOf(<<0, 1, 2>>, TRUE)
  /\ call.post = ChanOf(<<>>, TRUE)
  /\ call.fn = [x \in Elem |-> MaxElem - x]
  /\ iter = SliceOf(<<2, 1, 0>>, 0)

\* C25: the iterator Sort returns behaves in Equal like the Slice over the
\* sorted values that it wraps: Equal of it and b gives the answer Equal of
\* that Slice and b gives, so that Equal(Sort(S), S in sorted order) is
\* true for every length of S.
C25_SortedLikeSlice ==
  (call.op = "Equal" /\ call.arg.kind = "sorted") =>
    /\ call.ret = Equal(call.arg.Iterator, call.arg2).ret
    /\ Remaining(call.arg) = Remaining(call.arg2) => call.ret = TRUE

\* C26: CollectToChan over a Slice never blocks its goroutine.  The channel's
\* capacity is at least the number of elements the Slice had left, so every
\* send finds room; whether or not anything is ever received, the goroutine
\* sends every element, closes the channel and ends.
C26_SliceProducerNeverBlocks ==
  /\ []((call.op = "CollectToChan" /\ call.arg.kind = "Slice") =>
          /\ ch.cap >= Len(Remaining(call.arg))
          /\ ppc = "send" => Len(ch.buf) < ch.cap
          /\ ppc = "done" =>
               /\ ch.closed
               /\ received \o ch.buf = Remaining(call.arg)
               /\ Remaining(iter) = <<>>)
  /\ (call.op = "CollectToChan" /\ call.arg.kind = "Slice") ~> (ppc = "done")

C26_Witness ==
  /\ call.op = "CollectToChan"
  /\ call.arg = SliceOf(<<0, 1, 2>>, 0)
  /\ ch.cap = 3
  /\ ppc = "done"
  /\ ch.closed
  /\ cpc = "range"
  /\ received = <<>>
  /\ ch.buf = <<0, 1, 2>>

=============================================================================
